---- MODULE Spec2Model ----
(***************************************************************************)
(* deepseek-worker: a Cloudflare Worker exposing the GraphQL mutation      *)
(* chatWithAI, which forwards one message to an OpenAI-compatible chat     *)
(* completion API and reshapes the answer.                                 *)
(*                                                                         *)
(* The source tree holds several revisions of the worker:                  *)
(*   "cfenv"   src/src/index.js 172-287   env read from request.cf.env     *)
(*   "ctxenv"  src/src/index.js 1-171     env read from context.env        *)
(*   "ctxkey"  src/unnamed/part_000       key read from context directly   *)
(*   "envchk"  src/unnamed/part_001 155-439  context.env checked first     *)
(*   "sdk"     src/unnamed/part_001 1-154    upstream reached via the SDK  *)
(* "sdk" hands the HTTP exchange to openai.chat.completions.create: the    *)
(* model records that one call and what it settles to, not what the        *)
(* library does inside it.  In "ctxkey" the key and the other bindings are *)
(* read from different objects, so that revision never reaches its fetch   *)
(* under either context shape below.                                       *)
(* One invocation of the resolver is modelled as two steps around its      *)
(* only suspension point, the awaited upstream fetch.  The worker's fetch   *)
(* handler around it answers preflights and the diagnostic endpoint by      *)
(* itself and re-wraps what the GraphQL server returns.                     *)
(*                                                                         *)
(* Text is a sequence of tokens; String.prototype.includes is substring    *)
(* search on that sequence and a template literal is concatenation.        *)
(***************************************************************************)
EXTENDS Naturals, Sequences, FiniteSets, TLC

VARIABLES rev, env, shape, pc, args, calls, resp, result, request, reply, escaped

vars == <<rev, env, shape, pc, args, calls, resp, result, request, reply, escaped>>

(* ------------------------------ bounds --------------------------------- *)
MaxTextLen == 2   \* tokens in an upstream error body
MaxChoices == 2   \* entries of the upstream's choices array
MaxClock == 2     \* distinct readings of Date.now()

(* --------------------------- JavaScript values -------------------------- *)
Undefined == <<"#undefined">>
Null == <<"#null">>

\* !v for a string-or-nullish value
Truthy(v) == v # Undefined /\ v # Null /\ v # <<>>

\* `${v}` inside a template literal
Str(v) == IF v = Undefined THEN <<"undefined">>
          ELSE IF v = Null THEN <<"null">> ELSE v

\* a || b
Or(a, b) == IF Truthy(a) THEN a ELSE b

\* text.includes(needle)
Includes(text, needle) ==
  \E i \in 0..Len(text) :
     /\ i + Len(needle) <= Len(text)
     /\ \A j \in 1..Len(needle) : text[i + j] = needle[j]

InsufficientBalanceText == <<"Insufficient", "Balance">>
DefaultSystemPrompt == <<"You are a helpful assistant.">>
DefaultBaseUrl == <<"https://api.deepseek.com">>
DefaultModel == <<"deepseek-chat">>
CompletionsPath == <<"/v1/chat/completions">>

Revisions == {"cfenv", "ctxenv", "sdk", "ctxkey", "envchk"}
\* the revisions that call the upstream with fetch themselves
FetchRevisions == {"cfenv", "ctxenv", "ctxkey", "envchk"}
\* the revisions that read a system prompt and classify upstream errors
PromptRevisions == {"ctxkey", "envchk"}

(* ------------------------------ domains -------------------------------- *)
\* the worker's environment bindings: API key, base URL, model name
Envs == [key : {Undefined, <<>>, <<"sk-1">>, <<"sk-2">>},
         url : {Undefined, <<"https://proxy.example">>},
         model : {Undefined, <<"deepseek-reasoner">>}]

NoEnv == [key |-> Undefined, url |-> Undefined, model |-> Undefined]

\* how the GraphQL server hands the bindings passed to yoga.fetch(request, env, ctx)
\* to the resolver's context: as context.env, or spread over the context itself
Shapes == {"nested", "spread"}

\* arguments of the mutation as the GraphQL layer receives them
Messages == {Undefined, <<>>, <<"Hello">>}
ConversationIds == {Undefined, <<>>, <<"conv-7">>}
SystemPrompts == {Undefined, Null, <<>>, <<"Be", "brief">>}

NoArgs == [message |-> Undefined, conversationId |-> Undefined, systemPrompt |-> Undefined]

Tokens == {"Insufficient", "Balance", "x"}

\* bodies of upstream error responses, read with response.text()
Texts == UNION {[1..n -> Tokens] : n \in 0..MaxTextLen}

Clock == 1..MaxClock

Contents == {Undefined, <<"Hi there">>, InsufficientBalanceText}

NullChoice == [isNull |-> TRUE, hasMessage |-> FALSE, content |-> Undefined,
               finish_reason |-> "stop"]

MessageChoice(c, f) == [isNull |-> FALSE, hasMessage |-> TRUE, content |-> c,
                        finish_reason |-> f]

NoMessageChoice == [isNull |-> FALSE, hasMessage |-> FALSE, content |-> Undefined,
                    finish_reason |-> "stop"]

FirstChoices == {NullChoice, NoMessageChoice}
                  \cup {MessageChoice(c, f) : c \in Contents, f \in {"stop", "#false"}}

TailChoices == {NullChoice, MessageChoice(<<"second">>, "stop")}

ChoiceSeqs == UNION {{s \in [1..n -> FirstChoices \cup TailChoices] :
                        /\ n >= 1 => s[1] \in FirstChoices
                        /\ \A i \in 2..n : s[i] \in TailChoices} : n \in 0..MaxChoices}

\* the value response.json() yields: a syntax error, null, or an object
NoData == [parse |-> "syntax", hasChoices |-> FALSE, choices |-> <<>>,
           conversationId |-> Undefined]

NullData == [NoData EXCEPT !.parse = "null"]

ObjectData == [parse : {"object"}, hasChoices : {TRUE}, choices : ChoiceSeqs,
               conversationId : {Undefined, <<"up-1">>}]
                \cup [parse : {"object"}, hasChoices : {FALSE}, choices : {<<>>},
                      conversationId : {Undefined, <<"up-1">>}]

Statuses == {200, 402, 500}

\* response.ok
Ok(status) == status >= 200 /\ status <= 299

NoResp == [net |-> "none", status |-> 0, text |-> <<>>, data |-> NoData]

\* what the awaited fetch settles to: a rejection, or a response whose body is
\* read as text (not ok) or parsed as JSON (ok)
Responses ==
  {[NoResp EXCEPT !.net = "rejected"]}
    \cup [net : {"settled"}, status : {s \in Statuses : ~Ok(s)}, text : Texts,
          data : {NoData}]
    \cup [net : {"settled"}, status : {s \in Statuses : Ok(s)}, text : {<<>>},
          data : {NoData, NullData} \cup ObjectData]

(* ------------------------------- errors --------------------------------- *)
NoError == [kind |-> "none", status |-> 0, detail |-> <<>>, wrapped |-> FALSE]

\* new Error(...): kind names the message, status and detail what it interpolates
Error(kind, status, detail) ==
  [kind |-> kind, status |-> status, detail |-> detail, wrapped |-> FALSE]

\* catch (error) { throw new Error(`调用 AI API 时出错: ${error.message}`) }
Wrap(e) == [e EXCEPT !.wrapped = TRUE]

NoReq == [url |-> <<>>, auth |-> <<>>, model |-> Undefined, messages |-> <<>>,
          conversationId |-> Undefined, params |-> "none"]

NoResult == [tag |-> "none", messages |-> <<>>, conversationId |-> Undefined,
             error |-> NoError]

Thrown(e) == [NoResult EXCEPT !.tag = "error", !.error = e]

Returned(msgs, cid) == [NoResult EXCEPT !.tag = "ok", !.messages = msgs,
                                        !.conversationId = cid]

Msg(role, content) == [role |-> role, content |-> content]

(* ------------------------------ context --------------------------------- *)
\* the context object the resolver receives. "cfenv" stores the bindings on the
\* request (request.cf.env = env) before calling the server, so they always
\* arrive; the other revisions depend on how the server builds the context.
Context(r, e, sh) ==
  IF r = "cfenv" \/ sh = "nested"
    THEN [hasEnv |-> TRUE, env |-> e, DEEPSEEK_API_KEY |-> Undefined]
    ELSE [hasEnv |-> FALSE, env |-> NoEnv, DEEPSEEK_API_KEY |-> e.key]

\* message: String! -- the GraphQL layer rejects a missing or null message before
\* the resolver runs; any string, the empty one included, passes
GraphQLAccepts(a) == a.message # Undefined /\ a.message # Null

(* ------------------------ resolver, up to the fetch ---------------------- *)
Call(req) == [tag |-> "call", req |-> req, error |-> NoError]

Throw(e) == [tag |-> "throw", req |-> NoReq, error |-> e]

\* SystemPromptOf without the default of the destructuring
SystemPromptOfNoDefault(a) == a.systemPrompt

\* const { ..., systemPrompt = "You are a helpful assistant." } = args
SystemPromptOf(a) ==
  IF a.systemPrompt = Undefined THEN DefaultSystemPrompt ELSE a.systemPrompt

\* BuildMessages pushing the user entry before the system entry
BuildMessagesUserFirst(message, systemPrompt) ==
  <<Msg("user", message)>>
    \o (IF Truthy(systemPrompt) THEN <<Msg("system", systemPrompt)>> ELSE <<>>)

\* const messages = []; if (systemPrompt) push system; push user
BuildMessages(message, systemPrompt) ==
  (IF Truthy(systemPrompt) THEN <<Msg("system", systemPrompt)>> ELSE <<>>)
    \o <<Msg("user", message)>>

\* const API_KEY = env.DEEPSEEK_API_KEY ("envchk") or context.DEEPSEEK_API_KEY ("ctxkey")
ApiKeyOf(r, ctx) == IF r = "ctxkey" THEN ctx.DEEPSEEK_API_KEY ELSE ctx.env.key

\* the request handed to fetch by the revisions with a system prompt
PromptRequest(r, a, ctx) ==
  [url |-> Or(ctx.env.url, DefaultBaseUrl) \o CompletionsPath,
   auth |-> <<"Bearer ">> \o ApiKeyOf(r, ctx),
   model |-> Or(ctx.env.model, DefaultModel),
   messages |-> BuildMessages(a.message, SystemPromptOf(a)),
   conversationId |-> Undefined,
   params |-> "temperature=0.7,max_tokens=2000,stream=false"]

\* chatWithAI of "ctxkey" and "envchk", from entry to the awaited fetch
BeginPrompt(r, a, ctx) ==
  IF r = "envchk" /\ ~ctx.hasEnv
    THEN Throw(Error("EnvUndefined", 0, Str(ctx.DEEPSEEK_API_KEY)))
  ELSE IF ~ctx.hasEnv
    THEN Throw(Error("TypeError", 0, <<>>))
  ELSE IF ~Truthy(ApiKeyOf(r, ctx))
    THEN Throw(Error("MissingConfiguration", 0, <<>>))
  ELSE Call(PromptRequest(r, a, ctx))

\* the request handed to fetch by "cfenv" and "ctxenv"
LegacyRequest(a, ctx) ==
  [url |-> ctx.env.url,
   auth |-> <<"Bearer ">> \o Str(ctx.env.key),
   model |-> Undefined,
   messages |-> <<Msg("user", a.message)>>,
   conversationId |-> IF Truthy(a.conversationId) THEN a.conversationId ELSE Undefined,
   params |-> "none"]

\* chatWithAI of "cfenv" and "ctxenv", from entry to the awaited fetch
BeginLegacy(a, ctx) ==
  IF ~ctx.hasEnv
    THEN Throw(Error("TypeError", 0, <<>>))
  ELSE IF ~Truthy(ctx.env.url)
    THEN Throw(Wrap(Error("TypeError", 0, <<>>)))
  ELSE Call(LegacyRequest(a, ctx))

\* the arguments of new OpenAI(...) and openai.chat.completions.create(...)
SdkRequest(a, ctx) ==
  [url |-> ctx.env.url,
   auth |-> Str(ctx.env.key),
   model |-> DefaultModel,
   messages |-> <<Msg("user", a.message)>>,
   conversationId |-> Undefined,
   params |-> "none"]

\* chatWithAI of "sdk", from entry to the awaited create
BeginSdk(a, ctx) ==
  IF ~ctx.hasEnv
    THEN Throw(Error("TypeError", 0, <<>>))
    ELSE Call(SdkRequest(a, ctx))

Begin(r, a, ctx) ==
  IF r \in PromptRevisions THEN BeginPrompt(r, a, ctx)
  ELSE IF r = "sdk" THEN BeginSdk(a, ctx)
  ELSE BeginLegacy(a, ctx)

(* ----------------------- resolver, after the fetch ----------------------- *)
\* ClassifyHttpError deciding by the status code instead of the body
ClassifyHttpErrorByStatus(status, errorText) ==
  IF status = 402
    THEN Error("InsufficientBalance", 0, <<>>)
    ELSE Error("UpstreamHTTPError", status, errorText)

\* if (!response.ok) { ... } of "ctxkey" and "envchk"
ClassifyHttpError(status, errorText) ==
  IF Includes(errorText, InsufficientBalanceText)
    THEN Error("InsufficientBalance", 0, <<>>)
    ELSE Error("UpstreamHTTPError", status, errorText)

\* if (!data.choices || data.choices.length === 0 || !data.choices[0].message)
\* "throws" stands for the TypeError of reading .message of a null first choice
FormatCheck(data) ==
  IF ~data.hasChoices \/ Len(data.choices) = 0 THEN "bad"
  ELSE IF data.choices[1].isNull THEN "throws"
  ELSE IF ~data.choices[1].hasMessage THEN "bad"
  ELSE "ok"

\* const newConversationId = conversationId || `session-${Date.now()}`
NewConversationId(conversationId, now) ==
  Or(conversationId, <<"session-", ToString(now)>>)

\* ChatResponse with its two entries in the other order
ChatResponseSwapped(message, assistantMessage, conversationId) ==
  Returned(<<Msg("assistant", assistantMessage), Msg("user", message)>>, conversationId)

\* the returned ChatResponse
ChatResponse(message, assistantMessage, conversationId) ==
  Returned(<<Msg("user", message), Msg("assistant", assistantMessage)>>, conversationId)

\* everything after the format check of "ctxkey" and "envchk"
Accept(a, choice, now) ==
  IF choice.finish_reason = "#false" /\ choice.content = Undefined
    THEN Thrown(Error("TypeError", 0, <<>>))
  ELSE IF choice.finish_reason = "#false"
          /\ Includes(choice.content, InsufficientBalanceText)
    THEN Thrown(Error("InsufficientBalance", 0, <<>>))
  ELSE ChatResponse(a.message, choice.content,
                    NewConversationId(a.conversationId, now))

\* chatWithAI of "ctxkey" and "envchk", from the settled fetch to its end
ResumePrompt(a, res, now) ==
  IF res.net = "rejected" THEN Thrown(Error("FetchRejected", 0, <<>>))
  ELSE IF ~Ok(res.status) THEN Thrown(ClassifyHttpError(res.status, res.text))
  ELSE IF res.data.parse = "syntax" THEN Thrown(Error("SyntaxError", 0, <<>>))
  ELSE IF res.data.parse = "null" THEN Thrown(Error("TypeError", 0, <<>>))
  ELSE IF FormatCheck(res.data) = "bad"
    THEN Thrown(Error("UnexpectedUpstreamFormat", 0, <<>>))
  ELSE IF FormatCheck(res.data) = "throws" THEN Thrown(Error("TypeError", 0, <<>>))
  ELSE Accept(a, res.data.choices[1], now)

\* if (!data.choices || !data.choices[0] || !data.choices[0].message) of "ctxenv"
\* and "sdk"; "cfenv" has no check and reads data.choices[0].message.content directly
LegacyFormatCheck(r, data) ==
  IF ~data.hasChoices \/ Len(data.choices) = 0 \/ data.choices[1].isNull
       \/ ~data.choices[1].hasMessage
    THEN IF r = "cfenv" THEN "throws" ELSE "bad"
    ELSE "ok"

\* chatWithAI of "cfenv", "ctxenv" and "sdk", from the settled call to its end; every
\* error raised here is caught and thrown again inside a new message
ResumeLegacy(r, a, res) ==
  IF res.net = "rejected" THEN Thrown(Wrap(Error("FetchRejected", 0, <<>>)))
  ELSE IF ~Ok(res.status)
    THEN Thrown(Wrap(Error("UpstreamHTTPError", res.status, res.text)))
  ELSE IF res.data.parse = "syntax" THEN Thrown(Wrap(Error("SyntaxError", 0, <<>>)))
  ELSE IF res.data.parse = "null" THEN Thrown(Wrap(Error("TypeError", 0, <<>>)))
  ELSE IF LegacyFormatCheck(r, res.data) = "bad"
    THEN Thrown(Wrap(Error("UnexpectedUpstreamFormat", 0, <<>>)))
  ELSE IF LegacyFormatCheck(r, res.data) = "throws"
    THEN Thrown(Wrap(Error("TypeError", 0, <<>>)))
  ELSE ChatResponse(a.message, res.data.choices[1].content,
                    Or(res.data.conversationId, Null))

Resume(r, a, res, now) ==
  IF r \in PromptRevisions THEN ResumePrompt(a, res, now) ELSE ResumeLegacy(r, a, res)

\* type Message { role: String!  content: String! } under the nullable field
\* chatWithAI: ChatResponse -- a returned message whose content is undefined or
\* null makes the GraphQL layer answer with an error and no ChatResponse
Complete(r) ==
  IF r.tag = "ok"
       /\ \E i \in 1..Len(r.messages) : r.messages[i].content \in {Undefined, Null}
    THEN Thrown(Error("NonNullViolation", 0, <<>>))
    ELSE r

(* ----------------------------- HTTP handler ------------------------------ *)
Header(name, value) == [name |-> name, value |-> value]

AllowOrigin == Header("Access-Control-Allow-Origin", "*")
AllowMethods == Header("Access-Control-Allow-Methods", "GET, POST, OPTIONS")
AllowHeaders == Header("Access-Control-Allow-Headers", "Content-Type, Authorization")
AllowHeadersPreflight ==
  Header("Access-Control-Allow-Headers",
         "Content-Type, Authorization, Apollo-Require-Preflight")
MaxAge == Header("Access-Control-Max-Age", "86400")
ContentTypeJson == Header("Content-Type", "application/json")

\* the inbound requests: any method on the endpoint or on the diagnostic path,
\* with or without a GraphQL document in the body
Methods == {"OPTIONS", "GET", "POST"}
Paths == {"/", "/env-check"}
Bodies == {"none", "chatWithAI", "envCheck"}

NoRequest == [method |-> "none", path |-> "/", body |-> "none"]

Request(method, path, body) == [method |-> method, path |-> path, body |-> body]

\* what the diagnostics report about the bindings
NoDiag == [envAvailable |-> FALSE, envKeys |-> {}, hasApiKey |-> FALSE,
           apiUrl |-> <<>>, model |-> <<>>, timestamp |-> 0]

\* the single entry of the errors array of a 500 answer
NoEnvelope == [message |-> <<>>, code |-> "none", timestamp |-> 0]

NoReply == [tag |-> "none", status |-> 0, headers |-> {}, body |-> "none",
            diag |-> NoDiag, envelope |-> NoEnvelope]

\* new Response(body, { status, headers })
Response(status, headers, body) ==
  [NoReply EXCEPT !.tag = "response", !.status = status, !.headers = headers,
                  !.body = body]

\* Object.keys(env)
EnvKeys(e) ==
  {k \in {"DEEPSEEK_API_KEY", "DEEPSEEK_API_URL", "DEEPSEEK_MODEL"} :
     \/ k = "DEEPSEEK_API_KEY" /\ e.key # Undefined
     \/ k = "DEEPSEEK_API_URL" /\ e.url # Undefined
     \/ k = "DEEPSEEK_MODEL" /\ e.model # Undefined}

\* EnvCheckEndpointReply reporting the key itself in place of its presence
EnvCheckEndpointReplyLeaky(e, now) ==
  [Response(200, {ContentTypeJson, AllowOrigin}, "diagnostic") EXCEPT
     !.diag = [envAvailable |-> TRUE, envKeys |-> EnvKeys(e),
               hasApiKey |-> Truthy(e.key),
               apiUrl |-> Str(e.key),
               model |-> Or(e.model, <<"not set">>),
               timestamp |-> now]]

\* if (request.url.includes('/env-check')) return new Response(JSON.stringify(...))
\* the handler's own env is always an object
EnvCheckEndpointReply(e, now) ==
  [Response(200, {ContentTypeJson, AllowOrigin}, "diagnostic") EXCEPT
     !.diag = [envAvailable |-> TRUE, envKeys |-> EnvKeys(e),
               hasApiKey |-> Truthy(e.key),
               apiUrl |-> Or(e.url, <<"not set">>),
               model |-> Or(e.model, <<"not set">>),
               timestamp |-> now]]

\* resolvers.Query.envCheck
EnvCheckResolver(ctx) ==
  IF ~ctx.hasEnv
    THEN [NoDiag EXCEPT !.apiUrl = <<"Context.env is undefined">>,
                        !.model = <<"error">>]
    ELSE [NoDiag EXCEPT !.hasApiKey = Truthy(ctx.env.key),
                        !.apiUrl = Or(ctx.env.url, <<"Not set">>),
                        !.model = Or(ctx.env.model, <<"Not set">>)]

\* PreflightReply answering 200 without the Allow-Origin header
PreflightReplyPlain(r) == Response(200, {AllowMethods, MaxAge}, "null")

\* if (request.method === 'OPTIONS') return new Response(null, { status: 204, ... })
PreflightReply(r) ==
  Response(204,
           {AllowOrigin, AllowMethods, MaxAge,
            IF r = "cfenv" THEN AllowHeaders ELSE AllowHeadersPreflight},
           "null")

\* the response of yoga.fetch as the handler returns it: "cfenv" returns it as it
\* is, the other revisions set the three CORS headers on a copy of it
GraphQLReply(r) ==
  Response(200,
           IF r = "cfenv" THEN {ContentTypeJson}
           ELSE {ContentTypeJson, AllowOrigin, AllowMethods, AllowHeaders},
           "graphql")

\* messages of the errors that escape yoga.fetch or the re-wrapping
BalanceZh == "yu'e buzu"
ErrorMessages == {<<>>, <<"boom">>, <<"upstream", "Insufficient", "Balance">>,
                  <<"API", BalanceZh>>}

NoEscape == [is |-> FALSE, message |-> <<>>]

\* errorMessage.includes('余额不足') || errorMessage.includes('Insufficient Balance')
MentionsBalance(message) ==
  Includes(message, <<BalanceZh>>) \/ Includes(message, InsufficientBalanceText)

\* the handler's own rejection: an error leaves fetch(request, env, ctx)
HandlerThrows == [NoReply EXCEPT !.tag = "thrown"]

\* the 500 answer of the catch block
ErrorReply(envelope) ==
  [Response(500, {ContentTypeJson, AllowOrigin, AllowMethods, AllowHeaders},
            "errors") EXCEPT !.envelope = envelope]

\* catch (error) { ... } of the handler. "cfenv" has no try around yoga.fetch;
\* the catch of "sdk" reads the undeclared name errors and throws itself; the
\* catch of "ctxenv" answers with the message alone
CatchReply(r, message, now) ==
  IF r \in {"cfenv", "sdk"} THEN HandlerThrows
  ELSE IF r = "ctxenv"
    THEN ErrorReply([NoEnvelope EXCEPT !.message = Or(message, <<"unknown error">>)])
  ELSE LET errorMessage == Or(message, <<"Unknown server error">>)
       IN IF MentionsBalance(errorMessage)
            THEN ErrorReply([message |-> <<"balance banner">>,
                             code |-> "INSUFFICIENT_BALANCE", timestamp |-> now])
            ELSE ErrorReply([message |-> errorMessage,
                             code |-> "SERVER_ERROR", timestamp |-> now])

(* ------------------------------- actions --------------------------------- *)
TypeOK ==
  /\ rev \in Revisions
  /\ env \in Envs
  /\ shape \in Shapes
  /\ pc \in {"idle", "awaitFetch", "done", "replied"}
  /\ request \in [method : Methods, path : Paths, body : Bodies] \cup {NoRequest}
  /\ reply.tag \in {"none", "response", "thrown"}
  /\ escaped \in [is : BOOLEAN, message : ErrorMessages]
  /\ resp \in Responses \cup {NoResp}
  /\ result.tag \in {"none", "ok", "error"}
  /\ Len(calls) \in 0..2

Init ==
  /\ rev \in Revisions
  /\ env \in Envs
  /\ shape \in Shapes
  /\ pc = "idle"
  /\ args = NoArgs
  /\ calls = <<>>
  /\ resp = NoResp
  /\ result = NoResult
  /\ request = NoRequest
  /\ reply = NoReply
  /\ escaped = NoEscape

\* a preflight arrives and the handler answers it by itself
Preflight(path, body) ==
  /\ pc = "idle"
  /\ request' = Request("OPTIONS", path, body)
  /\ reply' = PreflightReply(rev)
  /\ pc' = "replied"
  /\ UNCHANGED <<rev, env, shape, args, calls, resp, result, escaped>>

\* a request for the diagnostic path arrives ("envchk" alone serves it)
EnvCheckEndpoint(method, body, now) ==
  /\ pc = "idle"
  /\ rev = "envchk"
  /\ request' = Request(method, "/env-check", body)
  /\ reply' = EnvCheckEndpointReply(env, now)
  /\ pc' = "replied"
  /\ UNCHANGED <<rev, env, shape, args, calls, resp, result, escaped>>

\* the query envCheck arrives ("envchk" alone declares it)
EnvCheckQuery ==
  /\ pc = "idle"
  /\ rev = "envchk"
  /\ request' = Request("POST", "/", "envCheck")
  /\ reply' = [GraphQLReply(rev) EXCEPT
                 !.diag = EnvCheckResolver(Context(rev, env, shape))]
  /\ pc' = "replied"
  /\ UNCHANGED <<rev, env, shape, args, calls, resp, result, escaped>>

\* a request arrives and yoga.fetch, or the re-wrapping of its response, throws
YogaThrows(method, body, message, now) ==
  /\ pc = "idle"
  /\ request' = Request(method, "/", body)
  /\ escaped' = [is |-> TRUE, message |-> message]
  /\ reply' = CatchReply(rev, message, now)
  /\ pc' = "replied"
  /\ UNCHANGED <<rev, env, shape, args, calls, resp, result>>

\* a mutation arrives: validation, then the resolver runs up to its fetch
Invoke(message, conversationId, systemPrompt) ==
  /\ pc = "idle"
  /\ request' = Request("POST", "/", "chatWithAI")
  /\ LET a == [message |-> message, conversationId |-> conversationId,
               systemPrompt |-> systemPrompt]
         b == Begin(rev, a, Context(rev, env, shape))
     IN /\ args' = a
        /\ IF ~GraphQLAccepts(a)
             THEN /\ pc' = "done"
                  /\ calls' = <<>>
                  /\ result' = Thrown(Error("ValidationError", 0, <<>>))
           ELSE IF b.tag = "call"
             THEN /\ pc' = "awaitFetch"
                  /\ calls' = <<b.req>>
                  /\ result' = NoResult
           ELSE /\ pc' = "done"
                /\ calls' = <<>>
                /\ result' = Thrown(b.error)
  /\ reply' = IF pc' = "done" THEN GraphQLReply(rev) ELSE NoReply
  /\ UNCHANGED <<rev, env, shape, resp, escaped>>

\* Settle with a retry: a failed attempt sends the request once more
SettleRetry(res, now) ==
  /\ pc = "awaitFetch"
  /\ resp' = res
  /\ LET r == Complete(Resume(rev, args, res, now))
     IN IF r.tag = "error" /\ Len(calls) < 2
          THEN /\ calls' = Append(calls, calls[1])
               /\ result' = NoResult
               /\ pc' = "awaitFetch"
          ELSE /\ calls' = calls
               /\ result' = r
               /\ pc' = "done"
  /\ reply' = IF pc' = "done" THEN GraphQLReply(rev) ELSE NoReply
  /\ UNCHANGED <<rev, env, shape, args, request, escaped>>

\* the fetch settles and the resolver runs to its end
Settle(res, now) ==
  /\ pc = "awaitFetch"
  /\ resp' = res
  /\ result' = Complete(Resume(rev, args, res, now))
  /\ pc' = "done"
  /\ reply' = GraphQLReply(rev)
  /\ UNCHANGED <<rev, env, shape, args, calls, request, escaped>>

\* the request is answered; nothing of it is kept for the next one
Finish ==
  /\ pc \in {"done", "replied"}
  /\ request' = NoRequest
  /\ reply' = NoReply
  /\ escaped' = NoEscape
  /\ pc' = "idle"
  /\ args' = NoArgs
  /\ calls' = <<>>
  /\ resp' = NoResp
  /\ result' = NoResult
  /\ UNCHANGED <<rev, env, shape>>

Next ==
  \/ \E m \in Messages, c \in ConversationIds, s \in SystemPrompts : Invoke(m, c, s)
  \/ \E res \in Responses, now \in Clock : Settle(res, now)
  \/ \E p \in Paths, b \in Bodies : Preflight(p, b)
  \/ \E m \in Methods \ {"OPTIONS"}, b \in Bodies, now \in Clock :
       EnvCheckEndpoint(m, b, now)
  \/ EnvCheckQuery
  \/ \E m \in Methods \ {"OPTIONS"}, b \in Bodies, e \in ErrorMessages, now \in Clock :
       YogaThrows(m, b, e, now)
  \/ Finish

Spec == Init /\ [][Next]_vars

(* ------------------------------- claims ---------------------------------- *)
\* the invocation is over and the caller holds a ChatResponse
Succeeded == pc = "done" /\ result.tag = "ok"

\* the invocation is over and the caller holds an error of this kind
Failed(kind) == pc = "done" /\ result.tag = "error" /\ result.error.kind = kind

\* the fetch settled with a response of a status that is not 2xx
NonOkResponse == pc = "done" /\ resp.net = "settled" /\ ~Ok(resp.status)

\* the fetch settled with a 2xx response whose body parsed to an object
OkObjectResponse ==
  pc = "done" /\ resp.net = "settled" /\ Ok(resp.status) /\ resp.data.parse = "object"

\* C1: every successful invocation returns exactly two messages, the caller's
\* message as the user entry and then the content of the upstream's first
\* choice as the assistant entry, both unchanged.
C1_TwoMessages ==
  Succeeded =>
    /\ Len(result.messages) = 2
    /\ result.messages[1] = [role |-> "user", content |-> args.message]
    /\ result.messages[2] = [role |-> "assistant",
                             content |-> resp.data.choices[1].content]

C1_Witness ==
  /\ Succeeded
  /\ rev = "envchk"
  /\ args.message = <<"Hello">>
  /\ result.messages[2].content = <<"Hi there">>

\* C2 (as stated): on success a supplied conversationId, the empty string
\* included, comes back unchanged, and an omitted one is replaced by a
\* non-empty generated identifier.
C2_EchoOrGenerate ==
  (Succeeded /\ rev = "envchk") =>
    IF args.conversationId # Undefined
      THEN result.conversationId = args.conversationId
      ELSE Truthy(result.conversationId)

\* C3 (as stated): without an API key the invocation fails with
\* MissingConfiguration and makes no outbound call; with a key configured in
\* the environment it does not fail with MissingConfiguration.
C3_MissingConfiguration ==
  (pc = "done" /\ GraphQLAccepts(args) /\ rev = "ctxkey" /\ shape = "nested") =>
    IF Truthy(env.key)
      THEN ~Failed("MissingConfiguration")
      ELSE Failed("MissingConfiguration") /\ calls = <<>>

\* C4: a response that is not 2xx never yields a ChatResponse; the error is
\* InsufficientBalance exactly when the body text contains "Insufficient
\* Balance", and otherwise the upstream error carrying the status and the body.
C4_NonOkClassified ==
  (NonOkResponse /\ rev \in PromptRevisions) =>
    /\ result.tag = "error"
    /\ result.error.kind = "InsufficientBalance"
         <=> Includes(resp.text, InsufficientBalanceText)
    /\ ~Includes(resp.text, InsufficientBalanceText) =>
         /\ result.error.kind = "UpstreamHTTPError"
         /\ result.error.status = resp.status
         /\ result.error.detail = resp.text

C4_Witness ==
  /\ NonOkResponse
  /\ rev = "envchk"
  /\ resp.status = 402
  /\ resp.text = InsufficientBalanceText
  /\ Failed("InsufficientBalance")

\* the parsed body lacks the path choices[0].message.content
PathAbsent(data) ==
  \/ ~data.hasChoices
  \/ Len(data.choices) = 0
  \/ data.choices[1].isNull
  \/ ~data.choices[1].hasMessage
  \/ data.choices[1].content = Undefined

\* C5 (as stated): a 2xx response whose JSON lacks choices[0].message.content
\* fails with UnexpectedUpstreamFormat.
C5_MissingPathRejected ==
  (OkObjectResponse /\ rev = "envchk" /\ PathAbsent(resp.data)) =>
    Failed("UnexpectedUpstreamFormat")

\* C6 (as stated): a 200 response whose body has no choices field fails with
\* UnexpectedUpstreamFormat and with nothing else.
C6_NoChoicesRejected ==
  (OkObjectResponse /\ rev \in {"envchk", "cfenv"} /\ resp.status = 200
     /\ ~resp.data.hasChoices) =>
    Failed("UnexpectedUpstreamFormat")

\* the request of the invocation has been handed to fetch
Called == pc \in {"awaitFetch", "done"} /\ Len(calls) = 1

\* C7: the outbound messages are an optional system entry followed by the user
\* entry carrying the message, and nothing else; an omitted systemPrompt gives
\* the default instruction as the system entry, a supplied non-empty one gives
\* itself, and the user entry is the last of at most two.
C7_OutboundMessages ==
  (Called /\ rev \in PromptRevisions) =>
    LET ms == calls[1].messages
        sp == args.systemPrompt
    IN /\ Len(ms) \in {1, 2}
       /\ ms[Len(ms)] = [role |-> "user", content |-> args.message]
       /\ Len(ms) = 2 => ms[1].role = "system" /\ Truthy(ms[1].content)
       /\ sp = Undefined =>
            ms = <<[role |-> "system", content |-> DefaultSystemPrompt],
                   [role |-> "user", content |-> args.message]>>
       /\ Truthy(sp) => Len(ms) = 2 /\ ms[1].content = sp
       /\ sp \in {Null, <<>>} => Len(ms) = 1

C7_Witness ==
  /\ Called
  /\ rev = "envchk"
  /\ args.systemPrompt = Undefined
  /\ Len(calls[1].messages) = 2
  /\ calls[1].messages[1].content = DefaultSystemPrompt

\* the request of the example: message "Hello" and no other argument
HelloOnly ==
  /\ Called
  /\ rev \in PromptRevisions
  /\ args = [message |-> <<"Hello">>, conversationId |-> Undefined,
             systemPrompt |-> Undefined]

\* what the example expects back once the upstream answers "Hi there"
HelloAnswered ==
  (Succeeded /\ resp.data.choices[1].content = <<"Hi there">>) =>
    /\ result.messages = <<[role |-> "user", content |-> <<"Hello">>],
                           [role |-> "assistant", content |-> <<"Hi there">>]>>
    /\ result.conversationId \notin {Null, Undefined}

\* C8 (as stated): for message "Hello" alone the upstream is called with exactly
\* the one user entry, and "Hi there" comes back as the two-entry response with
\* a non-null conversationId.
C8_HelloOriginal ==
  HelloOnly =>
    /\ calls[1].messages = <<[role |-> "user", content |-> <<"Hello">>]>>
    /\ HelloAnswered

\* C8 (amended): for message "Hello" alone the upstream is called with the
\* default system entry followed by the user entry, and "Hi there" comes back
\* as the two-entry response with a non-null conversationId.
C8_HelloExample ==
  HelloOnly =>
    /\ calls[1].messages = <<[role |-> "system", content |-> DefaultSystemPrompt],
                             [role |-> "user", content |-> <<"Hello">>]>>
    /\ HelloAnswered

C8_Witness ==
  /\ HelloOnly
  /\ rev = "envchk"
  /\ Succeeded
  /\ result.messages[2].content = <<"Hi there">>
  /\ result.conversationId = <<"session-", "1">>

\* C9 (as stated): on a worker whose API key is configured, an empty or missing
\* message fails with a validation error and no outbound call is made.
C9_EmptyMessageRejected ==
  (pc # "idle" /\ rev = "envchk" /\ shape = "nested" /\ Truthy(env.key)
     /\ args.message \in {Undefined, Null, <<>>}) =>
    /\ calls = <<>>
    /\ pc = "done" => Failed("ValidationError")

\* the one upstream call of the invocation failed: the fetch was rejected, the
\* status was not 2xx, or the body did not hold choices[0].message.content
UpstreamFailed ==
  /\ pc = "done"
  /\ Len(calls) = 1
  /\ \/ resp.net = "rejected"
     \/ ~Ok(resp.status)
     \/ resp.data.parse # "object"
     \/ PathAbsent(resp.data)

\* C10: an invocation makes at most one outbound call, to
\* {baseURL}/v1/chat/completions; once that call has failed no other call is
\* made and the caller gets an error, never a result.
C10_SingleCall ==
  /\ rev \in FetchRevisions => Len(calls) <= 1
  /\ (Called /\ rev \in PromptRevisions) =>
       calls[1].url = Or(env.url, DefaultBaseUrl) \o <<"/v1/chat/completions">>
  /\ (UpstreamFailed /\ rev \in FetchRevisions) => result.tag = "error"

C10_Witness ==
  /\ UpstreamFailed
  /\ rev = "envchk"
  /\ resp.status = 500
  /\ Failed("UpstreamHTTPError")

\* C11: an OPTIONS request, whatever its path or body, is answered with status
\* 204 and Access-Control-Allow-Origin: *, with no GraphQL execution and no
\* upstream call.
C11_Preflight ==
  (pc # "idle" /\ request.method = "OPTIONS") =>
    /\ pc = "replied"
    /\ reply.tag = "response"
    /\ reply.status = 204
    /\ [name |-> "Access-Control-Allow-Origin", value |-> "*"] \in reply.headers
    /\ args = NoArgs /\ result = NoResult
    /\ calls = <<>> /\ resp = NoResp

C11_Witness ==
  /\ pc = "replied"
  /\ rev = "envchk"
  /\ request = [method |-> "OPTIONS", path |-> "/env-check", body |-> "chatWithAI"]
  /\ reply.status = 204

\* the handler has answered a request that is not a preflight
Answered ==
  pc \in {"done", "replied"} /\ reply.tag = "response" /\ request.method # "OPTIONS"

HasHeader(name) == \E h \in reply.headers : h.name = name

\* C12 (as stated): every response to a request that is not a preflight carries
\* Access-Control-Allow-Origin: *, Access-Control-Allow-Methods and
\* Access-Control-Allow-Headers.
C12_CorsEverywhere ==
  (Answered /\ rev = "envchk") =>
    /\ [name |-> "Access-Control-Allow-Origin", value |-> "*"] \in reply.headers
    /\ HasHeader("Access-Control-Allow-Methods")
    /\ HasHeader("Access-Control-Allow-Headers")

\* C13 (as stated): when an error escapes the GraphQL processing the handler
\* does not throw; it answers 500 with one error entry carrying a message, the
\* code INSUFFICIENT_BALANCE if the message mentions insufficient balance and
\* SERVER_ERROR otherwise, and a timestamp.
C13_ErrorEnvelope ==
  (pc = "replied" /\ escaped.is /\ rev \in {"envchk", "sdk", "ctxenv"}) =>
    /\ reply.tag = "response"
    /\ reply.status = 500
    /\ reply.body = "errors"
    /\ reply.envelope.message # <<>>
    /\ reply.envelope.code = IF MentionsBalance(escaped.message)
                               THEN "INSUFFICIENT_BALANCE" ELSE "SERVER_ERROR"
    /\ reply.envelope.timestamp # 0

\* the configurations that differ from e in the value of a non-empty API key
\* and in nothing else
SameButKey(e) ==
  {f \in Envs : /\ Truthy(e.key) /\ Truthy(f.key) /\ f.key # e.key
                /\ f.url = e.url /\ f.model = e.model}

\* C14: the diagnostics report whether the API key is present and never its
\* value: the output of /env-check and of the envCheck query is the one that
\* any configuration differing only in the value of a non-empty key gives, and
\* hasApiKey is a boolean that is true only if the key is set.
C14_DiagnosticsHideKey ==
  /\ (pc = "replied" /\ reply.body = "diagnostic") =>
       /\ \A f \in SameButKey(env) :
            reply = EnvCheckEndpointReply(f, reply.diag.timestamp)
       /\ reply.diag.hasApiKey = Truthy(env.key)
       /\ ~Includes(reply.diag.apiUrl \o reply.diag.model, env.key)
            \/ ~Truthy(env.key)
  /\ (pc = "replied" /\ request.body = "envCheck" /\ ~escaped.is
        /\ request.method # "OPTIONS" /\ reply.body = "graphql") =>
       /\ \A f \in SameButKey(env) :
            reply.diag = EnvCheckResolver(Context(rev, f, shape))
       /\ reply.diag.hasApiKey => Truthy(env.key)

C14_Witness ==
  /\ pc = "replied"
  /\ reply.body = "diagnostic"
  /\ env.key = <<"sk-1">>
  /\ SameButKey(env) # {}
  /\ reply.diag.hasApiKey

\* C15 (as stated): the API key reaches the Authorization header of the
\* upstream call and nothing else; no ChatResponse and no error of chatWithAI
\* holds the key, whatever the outcome and whatever the context carries.
C15_KeyNotExposed ==
  (pc = "done" /\ rev = "envchk" /\ Truthy(env.key)) =>
    /\ ~Includes(result.error.detail, env.key)
    /\ ~Includes(result.conversationId, env.key)
    /\ \A i \in 1..Len(result.messages) :
         ~Includes(result.messages[i].content, env.key)

====
